---- MODULE Spec2Model ----
(***************************************************************************)
(* Slot booking server (src/server/index.js): the bookings table and the   *)
(* POST /api/bookings admission handler, whose three store statements      *)
(* (slot lookup, daily count, insert) run as separate callbacks with no    *)
(* transaction around them, so statements of concurrent requests           *)
(* interleave.  Strings that the code inspects character by character      *)
(* (time_slot, email, phone, name, purpose) are sequences of one-character *)
(* strings; a date 'YYYY-MM-DD' is the triple <<year, month, day>>.        *)
(***************************************************************************)
EXTENDS Integers, Sequences, FiniteSets, TLC

VARIABLES
    usePostgreSQL,  \* index.js:44  which branch the handlers take
    pool,           \* index.js:42  TRUE when the pg Pool exists, FALSE for null
    db,             \* index.js:43  TRUE when the sqlite3 handle exists, FALSE for null
    connTest,       \* index.js:54  the callback of SELECT NOW(): none, pending, done
    bookings,       \* the bookings table, rows in insertion order
    idSeq,          \* last value handed out by SERIAL / AUTOINCREMENT
    reqs,           \* POST /api/bookings requests, in arrival order
    selectedDate,   \* BookingInterface.js:10  the date picked in the calendar
    selectedSlot,   \* BookingInterface.js:11  the slot picked, <<>> for null
    slotsData,      \* BookingInterface.js:12  the response on display
    loading,        \* BookingInterface.js:13
    fetches,        \* the fetchSlots calls of the page, in call order
    posting         \* BookingInterface.js:90-96  bookingData of the createBooking awaited

vars == <<usePostgreSQL, pool, db, connTest, bookings, idSeq, reqs,
          selectedDate, selectedSlot, slotsData, loading, fetches, posting>>

\* the state of the booking page
client == <<selectedDate, selectedSlot, slotsData, loading, fetches, posting>>

\* what the database setup assigns
setup == <<usePostgreSQL, pool, db, connTest>>

(***************************************************************************)
(* Bounds of the model.                                                    *)
(***************************************************************************)
MaxRequests == 2

(***************************************************************************)
(* Constants of the program.                                               *)
(***************************************************************************)
\* index.js:303 / :342  "Daily booking limit reached (50 bookings)"
DailyLimit == 50
\* index.js:293 / :332  one existing row for (date, time_slot) blocks the slot
SlotCapacity == 1

(***************************************************************************)
(* Characters.                                                             *)
(***************************************************************************)
Digits == <<"0", "1", "2", "3", "4", "5", "6", "7", "8", "9">>

IsDigit(c) == \E k \in 1..10 : Digits[k] = c

DigitVal(c) == (CHOOSE k \in 1..10 : Digits[k] = c) - 1

DigitChar(n) == Digits[n + 1]

UpperCase == <<"A", "B", "C", "D", "E", "F", "G", "H", "I", "J", "K", "L", "M",
               "N", "O", "P", "Q", "R", "S", "T", "U", "V", "W", "X", "Y", "Z">>

LowerCase == <<"a", "b", "c", "d", "e", "f", "g", "h", "i", "j", "k", "l", "m",
               "n", "o", "p", "q", "r", "s", "t", "u", "v", "w", "x", "y", "z">>

\* the lower-case letter of each capital
LowerOf ==
    [c \in {UpperCase[k] : k \in 1..26} |->
        LowerCase[CHOOSE k \in 1..26 : UpperCase[k] = c]]

\* String.prototype.toLowerCase on one character
ToLowerChar(c) == IF c \in DOMAIN LowerOf THEN LowerOf[c] ELSE c

ToLower(s) == [k \in 1..Len(s) |-> ToLowerChar(s[k])]

\* a request field that is absent from the JSON body (JavaScript undefined)
Undefined == <<"undefined">>

(***************************************************************************)
(* express-validator chains of validateBooking (index.js:155-162).         *)
(***************************************************************************)
RECURSIVE TrimLeft(_)
TrimLeft(s) == IF s # <<>> /\ Head(s) = " " THEN TrimLeft(Tail(s)) ELSE s

RECURSIVE TrimRight(_)
TrimRight(s) ==
    IF s # <<>> /\ s[Len(s)] = " " THEN TrimRight(SubSeq(s, 1, Len(s) - 1)) ELSE s

\* .trim()
Trim(s) == TrimRight(TrimLeft(s))

\* .escape(): validator.js replaces & < > / ' by HTML entities (and the
\* double quote, the backslash and the backtick, which no input here holds)
EscapeChar(c) ==
    CASE c = "&" -> <<"&", "a", "m", "p", ";">>
      [] c = "<" -> <<"&", "l", "t", ";">>
      [] c = ">" -> <<"&", "g", "t", ";">>
      [] c = "/" -> <<"&", "#", "x", "2", "F", ";">>
      [] c = "'" -> <<"&", "#", "x", "2", "7", ";">>
      [] OTHER -> <<c>>

RECURSIVE Escape(_)
Escape(s) == IF s = <<>> THEN <<>> ELSE EscapeChar(Head(s)) \o Escape(Tail(s))

\* index of the first "@" of s, 0 when there is none
AtIndex(s) ==
    IF \E k \in 1..Len(s) : s[k] = "@"
    THEN CHOOSE k \in 1..Len(s) : s[k] = "@" /\ \A j \in 1..(k - 1) : s[j] # "@"
    ELSE 0

\* .isEmail(): user@domain with a dotted domain, one "@", no blanks
IsEmail(s) ==
    LET a == AtIndex(s) IN
    /\ a > 1
    /\ a < Len(s)
    /\ \A k \in 1..Len(s) : s[k] # " " /\ (s[k] = "@" => k = a)
    /\ \E k \in (a + 2)..(Len(s) - 1) : s[k] = "."
    /\ s[a + 1] # "." /\ s[Len(s)] # "."

\* .normalizeEmail(): lower-cases the address (all_lowercase is the default)
NormalizeEmail(s) == ToLower(s)

\* body('phone').matches(/^[\+]?[1-9][\d]{0,15}$/)
MatchesPhone(s) ==
    LET d == IF s # <<>> /\ Head(s) = "+" THEN Tail(s) ELSE s IN
    /\ Len(d) >= 1
    /\ Len(d) <= 16
    /\ IsDigit(d[1]) /\ d[1] # "0"
    /\ \A k \in 2..Len(d) : IsDigit(d[k])

\* body('time_slot').matches(/^([0-1]?[0-9]|2[0-3]):[0-5][0-9]$/)
MatchesTimeSlot(s) ==
    \/ /\ Len(s) = 4
       /\ IsDigit(s[1])
       /\ s[2] = ":"
       /\ s[3] \in {"0", "1", "2", "3", "4", "5"}
       /\ IsDigit(s[4])
    \/ /\ Len(s) = 5
       /\ \/ s[1] \in {"0", "1"} /\ IsDigit(s[2])
          \/ s[1] = "2" /\ s[2] \in {"0", "1", "2", "3"}
       /\ s[3] = ":"
       /\ s[4] \in {"0", "1", "2", "3", "4", "5"}
       /\ IsDigit(s[5])

\* body('date').isISO8601(), on a date written YYYY-MM-DD
IsISO8601(d) == d[2] \in 1..12 /\ d[3] \in 1..31

\* the fields whose chain fails, in the order of the chains
ValidationErrors(b) ==
    LET bad(field, failed) == IF failed THEN <<field>> ELSE <<>> IN
       bad("name", Len(Trim(b.name)) < 2 \/ Len(Trim(b.name)) > 255)
    \o bad("email", b.email # Undefined /\ ~IsEmail(b.email))
    \o bad("phone", ~MatchesPhone(b.phone))
    \o bad("purpose", Len(Trim(b.purpose)) < 5 \/ Len(Trim(b.purpose)) > 1000)
    \o bad("date", ~IsISO8601(b.date))
    \o bad("time_slot", ~MatchesTimeSlot(b.time_slot))

\* req.body after the sanitizers of the chains have run
Sanitize(b) ==
    [name |-> Escape(Trim(b.name)),
     email |-> IF b.email = Undefined THEN Undefined
               ELSE Escape(NormalizeEmail(b.email)),
     phone |-> Escape(b.phone),
     purpose |-> Escape(Trim(b.purpose)),
     date |-> b.date,
     time_slot |-> b.time_slot]

(***************************************************************************)
(* The bookings table (index.js:107-119 SQLite, 131-143 PostgreSQL).       *)
(***************************************************************************)
\* minutes after midnight of a string the time_slot pattern accepts
TimeOfDay(s) ==
    IF Len(s) = 4
    THEN DigitVal(s[1]) * 60 + DigitVal(s[3]) * 10 + DigitVal(s[4])
    ELSE (DigitVal(s[1]) * 10 + DigitVal(s[2])) * 60
         + DigitVal(s[4]) * 10 + DigitVal(s[5])

\* a PostgreSQL TIME value as text: HH:MM:SS
TimeText(t) ==
    <<DigitChar((t \div 60) \div 10), DigitChar((t \div 60) % 10), ":",
      DigitChar((t % 60) \div 10), DigitChar((t % 60) % 10), ":", "0", "0">>

\* moment's format('HH:mm') of a time of day
FormatHHmm(t) ==
    <<DigitChar((t \div 60) \div 10), DigitChar((t \div 60) % 10), ":",
      DigitChar((t % 60) \div 10), DigitChar((t % 60) % 10)>>

\* what the time_slot column holds for an input string: the TIME column of
\* PostgreSQL holds the time of day, the TEXT column of SQLite the string
TimeSlotColumn(pg, s) == IF pg THEN TimeText(TimeOfDay(s)) ELSE s

\* a slot lookup whose WHERE clause has lost the time_slot condition
SelectByDateOnly(table, pg, d, s) == {k \in 1..Len(table) : table[k].date = d}

\* SELECT ... WHERE date = d AND time_slot = s
SelectByDateAndSlot(table, pg, d, s) ==
    {k \in 1..Len(table) :
        table[k].date = d /\ table[k].time_slot = TimeSlotColumn(pg, s)}

\* SELECT COUNT(*) ... WHERE date = d
CountByDate(table, d) == Cardinality({k \in 1..Len(table) : table[k].date = d})

\* email TEXT NOT NULL / VARCHAR(255) NOT NULL: an absent email binds as NULL
ViolatesNotNull(b) == b.email = Undefined

\* the row INSERT INTO bookings (...) VALUES (...) adds
NewRow(table, pg, id, b) ==
    [id |-> id,
     name |-> b.name,
     email |-> b.email,
     phone |-> b.phone,
     purpose |-> b.purpose,
     date |-> b.date,
     time_slot |-> TimeSlotColumn(pg, b.time_slot),
     created_at |-> Len(table) + 1]

\* an insert that makes room by dropping the oldest row
InsertBookingEvicting(table, pg, id, b) ==
    IF table = <<>> THEN Append(table, NewRow(table, pg, id, b))
    ELSE Append(Tail(table), NewRow(table, pg, id, b))

\* an insert that replaces the row the same phone booked before
InsertBookingUpsert(table, pg, id, b) ==
    IF \E k \in 1..Len(table) : table[k].phone = b.phone
    THEN [table EXCEPT ![CHOOSE k \in 1..Len(table) : table[k].phone = b.phone]
                          = NewRow(table, pg, id, b)]
    ELSE Append(table, NewRow(table, pg, id, b))

InsertBooking(table, pg, id, b) == Append(table, NewRow(table, pg, id, b))

(***************************************************************************)
(* Responses of POST /api/bookings.                                        *)
(***************************************************************************)
SlotBookedMsg == "This time slot is already booked"
DailyLimitMsg == "Daily booking limit reached (50 bookings)"
DatabaseErrorMsg == "Database error"
InsertFailedMsg == "Failed to create booking"

NoResponse == [status |-> 0, error |-> "", errors |-> <<>>, id |-> 0]

Response(status, error) == [status |-> status, error |-> error, errors |-> <<>>, id |-> 0]

\* what the err of a failed statement says, and of an INSERT the table refused
StoreErrorText == "connection terminated unexpectedly"
ConstraintErrorText == "NOT NULL constraint failed: bookings.email"

\* a 500 that passes the text of err on
ErrorResponseRaw(msg, err) == Response(500, err)

\* index.js:290-291, :300-301, :312-313  console.error(label, err) and
\* res.status(500).json({ error: msg })
ErrorResponse(msg, err) == Response(500, msg)

\* the admission outcome a response stands for
Cause(r) ==
    CASE r.status = 201 -> "Committed"
      [] r.status = 400 -> "ValidationError"
      [] r.status = 409 /\ r.error = SlotBookedMsg -> "SlotFull"
      [] r.status = 409 /\ r.error = DailyLimitMsg -> "DailyLimitReached"
      [] r.status = 500 -> "StoreError"
      [] OTHER -> "None"

\* a slot check that lets a second booking in
SlotTakenOffByOne(rows) == Cardinality(rows) > 1

\* index.js:293 / :332  result.rows.length > 0, if (row)
SlotTaken(rows) == Cardinality(rows) > 0

\* a daily check that lets the 51st booking in
DailyLimitReachedOffByOne(count) == count > DailyLimit

\* index.js:303 / :342  count >= 50
DailyLimitReached(count) == count >= DailyLimit

(***************************************************************************)
(* Inputs: the request bodies clients send.                                *)
(***************************************************************************)
Slot0900 == <<"0", "9", ":", "0", "0">>
Slot0930 == <<"0", "9", ":", "3", "0">>

\* Monday and Tuesday of one calendar week, and the Monday after
Mon0603 == <<2024, 6, 3>>
Tue0604 == <<2024, 6, 4>>
Mon0610 == <<2024, 6, 10>>

NameJo == <<"J", "o">>
PurposeVisit == <<"v", "i", "s", "i", "t">>

EmailLower == <<"a", "@", "x", ".", "i", "o">>
EmailUpper == <<"A", "@", "x", ".", "i", "o">>
Phone91 == <<"9", "1">>
Phone92 == <<"9", "2">>

Body(email, phone, date, slot) ==
    [name |-> NameJo, email |-> email, phone |-> phone, purpose |-> PurposeVisit,
     date |-> date, time_slot |-> slot]

\* one person asking for two slots of a Monday, for the day after and for
\* the Monday after; the same address in capitals with another phone; a body
\* without the optional email; one that fails validation
Bodies ==
    {Body(EmailLower, Phone91, Mon0603, s) : s \in {Slot0900, Slot0930}}
    \cup {Body(EmailLower, Phone91, d, Slot0900) : d \in {Tue0604, Mon0610}}
    \cup {Body(EmailUpper, Phone92, Mon0603, Slot0930)}
    \cup {Body(Undefined, Phone91, Mon0603, Slot0930)}
    \cup {[Body(EmailLower, <<"a", "b", "c">>, Mon0603, Slot0900)
             EXCEPT !.purpose = <<"a", "b", "c">>]}

(***************************************************************************)
(* The table a process finds at start: ./bookings.db and the PostgreSQL    *)
(* database outlive the process (CREATE TABLE IF NOT EXISTS), so the table *)
(* holds what earlier admissions left.  PriorRow(pg, k) is the row of the  *)
(* k-th of a series of admissions by different people for different times  *)
(* of Monday 2024-06-03, 00:00, 00:01, ...                                 *)
(***************************************************************************)
TwoDigits(k) == <<DigitChar(k \div 10), DigitChar(k % 10)>>

PriorRow(pg, k) ==
    [id |-> k,
     name |-> NameJo,
     email |-> <<"f">> \o TwoDigits(k) \o <<"@", "x", ".", "i", "o">>,
     phone |-> <<"7">> \o TwoDigits(k),
     purpose |-> PurposeVisit,
     date |-> Mon0603,
     time_slot |-> TimeSlotColumn(pg, FormatHHmm(k - 1)),
     created_at |-> k]

PriorBookings(pg, n) == [k \in 1..n |-> PriorRow(pg, k)]

\* an empty table, and one a single booking short of the daily limit
PriorCounts == {0, DailyLimit - 1}

(***************************************************************************)
(* State machine.                                                          *)
(***************************************************************************)
\* BookingInterface.js:11, :12  useState(null)
NoSlot == <<>>
NoSlotsData ==
    [date |-> <<0, 0, 0>>, availableSlots |-> <<>>, bookedSlots |-> <<>>,
     totalBookings |-> 0, maxBookings |-> 0]
\* no createBooking is awaited
NoPost == [date |-> <<0, 0, 0>>, time_slot |-> <<>>]

\* BookingInterface.js:10-13, :20  the page as useState builds it, for the
\* runs of the server in which no page takes part
NoPage ==
    /\ selectedDate = Mon0603
    /\ selectedSlot = NoSlot
    /\ slotsData = NoSlotsData
    /\ loading = FALSE
    /\ fetches = <<>>
    /\ posting = NoPost

\* the setup has finished: without DATABASE_URL initSQLite has run, with it
\* the connection test has succeeded
SetupDone ==
    /\ pool = usePostgreSQL
    /\ db = ~usePostgreSQL
    /\ connTest = IF usePostgreSQL THEN "done" ELSE "none"

Init ==
    /\ usePostgreSQL \in BOOLEAN
    /\ SetupDone
    /\ \E n \in PriorCounts :
          /\ bookings = PriorBookings(usePostgreSQL, n)
          /\ idSeq = n
    /\ reqs = <<>>
    /\ NoPage

\* day of the year 2024 (0 = Monday 1 January) of a date of 2024
DaysBeforeMonth == <<0, 31, 60, 91, 121, 152, 182, 213, 244, 274, 305, 335>>

DayOfYear(d) == DaysBeforeMonth[d[2]] + d[3] - 1

\* the calendar week (Monday to Sunday) of a date
WeekOf(d) == DayOfYear(d) \div 7

\* the rows booked for date d whose time_slot column holds col
RowsFor(table, d, col) ==
    {k \in 1..Len(table) : table[k].date = d /\ table[k].time_slot = col}

\* the rows dated d
RowsOn(table, d) == {k \in 1..Len(table) : table[k].date = d}

\* the rows of the week of b.date whose identity matches the requester's:
\* the email ignoring case or the phone; the phone alone without an email
MatchingInWeek(table, b) ==
    {k \in 1..Len(table) :
        /\ WeekOf(table[k].date) = WeekOf(b.date)
        /\ \/ b.email # Undefined /\ ToLower(table[k].email) = ToLower(b.email)
           \/ table[k].phone = b.phone}

\* what the table held for a request when it arrived (history, not program state)
Snapshot(table, pg, b) ==
    [slot |-> Cardinality(RowsFor(table, b.date, TimeSlotColumn(pg, b.time_slot))),
     day |-> Cardinality(RowsOn(table, b.date)),
     week |-> Cardinality(MatchingInWeek(table, b))]

NoSnapshot == [slot |-> 0, day |-> 0, week |-> 0]

\* a statement the handler has run and what its callback received: the
\* number of rows, the count or the new id; StoreFailed for err
StoreFailed == 0 - 1

\* the INSERT was refused by a constraint of the table
ConstraintFailed == 0 - 3

Query(stmt, res) == [stmt |-> stmt, res |-> res]

\* the statement could not be issued: the handle of the branch is null
NoHandle == 0 - 4

\* what Express answers when the handler throws
TypeErrorText == "TypeError: Cannot read properties of null"

\* index.js:286 / :325  if (usePostgreSQL) pool.query(...) else db.get(...)
Branch(pg) == IF pg THEN "postgres" ELSE "sqlite"

\* the handle the branch calls is an object, not null
HandleReady(pg, p, d) == IF pg THEN p ELSE d

\* index.js:278-287  arrival of a request: the validation chains run, and
\* either the 400 is sent or the slot lookup is issued on the handle of the
\* branch; a call on a null handle throws, and Express answers 500
Submit(b) ==
    /\ Len(reqs) < MaxRequests
    /\ LET errs == ValidationErrors(b) IN
       reqs' = Append(reqs,
          IF errs # <<>>
          THEN [body |-> b, pc |-> "done", queries |-> <<>>,
                atSubmit |-> NoSnapshot, branch |-> "none",
                resp |-> [status |-> 400, error |-> "", errors |-> errs, id |-> 0]]
          ELSE IF ~HandleReady(usePostgreSQL, pool, db)
          THEN [body |-> Sanitize(b), pc |-> "done",
                queries |-> <<Query("slot", NoHandle)>>,
                atSubmit |-> Snapshot(bookings, usePostgreSQL, Sanitize(b)),
                branch |-> Branch(usePostgreSQL),
                resp |-> Response(500, TypeErrorText)]
          ELSE [body |-> Sanitize(b), pc |-> "slotCheck", queries |-> <<>>,
                atSubmit |-> Snapshot(bookings, usePostgreSQL, Sanitize(b)),
                branch |-> Branch(usePostgreSQL),
                resp |-> NoResponse])
    /\ UNCHANGED <<setup, client, bookings, idSeq>>

\* the request ends with a response
Finish(i, r, q) ==
    reqs' = [reqs EXCEPT ![i].pc = "done", ![i].resp = r,
                         ![i].queries = Append(@, q)]

\* the request goes on to its next statement
Proceed(i, pc, q) ==
    reqs' = [reqs EXCEPT ![i].pc = pc, ![i].queries = Append(@, q)]

\* index.js:288-295 / :327-334  the slot lookup runs and its callback is called
SlotCheck(i) ==
    /\ reqs[i].pc = "slotCheck"
    /\ \E err \in BOOLEAN :
          LET b == reqs[i].body
              rows == SelectByDateAndSlot(bookings, usePostgreSQL, b.date, b.time_slot)
              q == Query("slot", Cardinality(rows))
          IN IF err
             THEN Finish(i, ErrorResponse(DatabaseErrorMsg, StoreErrorText), Query("slot", StoreFailed))
             ELSE IF SlotTaken(rows) THEN Finish(i, Response(409, SlotBookedMsg), q)
             ELSE Proceed(i, "dailyCheck", q)
    /\ UNCHANGED <<setup, client, bookings, idSeq>>

\* a daily check that runs after the row is written and does not take it back
DailyCheckInsertFirst(i) ==
    /\ reqs[i].pc = "dailyCheck"
    /\ \E err \in BOOLEAN :
          LET count == CountByDate(bookings, reqs[i].body.date)
              q == Query("daily", count)
          IN IF err
             THEN /\ Finish(i, ErrorResponse(DatabaseErrorMsg, StoreErrorText), Query("daily", StoreFailed))
                  /\ UNCHANGED <<bookings, idSeq>>
             ELSE IF DailyLimitReached(count)
                  THEN /\ Finish(i, Response(409, DailyLimitMsg), q)
                       /\ bookings' = InsertBooking(bookings, usePostgreSQL, idSeq + 1,
                                                    reqs[i].body)
                       /\ idSeq' = idSeq + 1
             ELSE /\ Proceed(i, "insert", q)
                  /\ UNCHANGED <<bookings, idSeq>>
    /\ UNCHANGED <<setup, client>>

\* index.js:298-305 / :337-344  the daily count runs and its callback is called
DailyCheck(i) ==
    /\ reqs[i].pc = "dailyCheck"
    /\ \E err \in BOOLEAN :
          LET count == CountByDate(bookings, reqs[i].body.date)
              q == Query("daily", count)
          IN IF err
             THEN Finish(i, ErrorResponse(DatabaseErrorMsg, StoreErrorText), Query("daily", StoreFailed))
             ELSE IF DailyLimitReached(count)
                  THEN Finish(i, Response(409, DailyLimitMsg), q)
             ELSE Proceed(i, "insert", q)
    /\ UNCHANGED <<setup, client, bookings, idSeq>>

\* an insert whose row is stored although its callback receives err
InsertStoresOnError(i) ==
    /\ reqs[i].pc = "insert"
    /\ \E err \in BOOLEAN :
          LET b == reqs[i].body IN
          IF ViolatesNotNull(b)
          THEN /\ Finish(i, ErrorResponse(InsertFailedMsg, ConstraintErrorText),
                         Query("insert", ConstraintFailed))
               /\ idSeq' = IF usePostgreSQL THEN idSeq + 1 ELSE idSeq
               /\ UNCHANGED bookings
          ELSE /\ bookings' = InsertBooking(bookings, usePostgreSQL, idSeq + 1, b)
               /\ idSeq' = idSeq + 1
               /\ IF err
                  THEN Finish(i, ErrorResponse(InsertFailedMsg, StoreErrorText),
                              Query("insert", StoreFailed))
                  ELSE Finish(i, [status |-> 201, error |-> "", errors |-> <<>>,
                                  id |-> idSeq + 1], Query("insert", idSeq + 1))
    /\ UNCHANGED <<setup, client>>

\* index.js:308-322 / :347-356  the INSERT runs and its callback is called.
\* A NOT NULL violation is an error of the statement; PostgreSQL has drawn
\* the SERIAL value by then, SQLite assigns the rowid only to a stored row.
Insert(i) ==
    /\ reqs[i].pc = "insert"
    /\ \E err \in BOOLEAN :
          LET b == reqs[i].body
              failed == Query("insert", StoreFailed)
          IN
          IF err
          THEN /\ Finish(i, ErrorResponse(InsertFailedMsg, StoreErrorText), failed)
               /\ UNCHANGED <<bookings, idSeq>>
          ELSE IF ViolatesNotNull(b)
          THEN /\ Finish(i, ErrorResponse(InsertFailedMsg, ConstraintErrorText),
                         Query("insert", ConstraintFailed))
               /\ idSeq' = IF usePostgreSQL THEN idSeq + 1 ELSE idSeq
               /\ UNCHANGED bookings
          ELSE /\ bookings' = InsertBooking(bookings, usePostgreSQL, idSeq + 1, b)
               /\ idSeq' = idSeq + 1
               /\ Finish(i, [status |-> 201, error |-> "", errors |-> <<>>,
                             id |-> idSeq + 1], Query("insert", idSeq + 1))
    /\ UNCHANGED <<setup, client>>

Next ==
    \/ \E b \in Bodies : Submit(b)
    \/ \E i \in DOMAIN reqs : SlotCheck(i)
    \/ \E i \in DOMAIN reqs : DailyCheck(i)
    \/ \E i \in DOMAIN reqs : Insert(i)

Spec == Init /\ [][Next]_vars

(***************************************************************************)
(* Vocabulary of the properties.                                           *)
(***************************************************************************)
Done(r) == r.pc = "done"

Committed(r) == Done(r) /\ r.resp.status = 201

\* Rejected: a validation error or an admission check said no
Rejected(r) == Done(r) /\ r.resp.status \in {400, 409}

\* the value a statement of the request returned; NotRun when it did not run
NotRun == 0 - 2

Result(r, stmt) ==
    IF \E k \in 1..Len(r.queries) : r.queries[k].stmt = stmt
    THEN r.queries[CHOOSE k \in 1..Len(r.queries) : r.queries[k].stmt = stmt].res
    ELSE NotRun

\* the (date, time_slot column) pairs that occur in a table
Keys(table) == {<<table[k].date, table[k].time_slot>> : k \in 1..Len(table)}

(***************************************************************************)
(* C1.  No (date, time_slot) ever holds more committed bookings than the   *)
(* per-slot capacity, whatever the interleaving of concurrent requests.    *)
(* The handler reads and inserts in separate statements: two requests that *)
(* both look the slot up before either inserts are both committed.         *)
(***************************************************************************)
C1_SlotNeverOverbooked ==
    \A key \in Keys(bookings) :
        Cardinality(RowsFor(bookings, key[1], key[2])) <= SlotCapacity

(***************************************************************************)
(* C2.  No date ever holds more committed bookings than the daily          *)
(* capacity, whatever the interleaving of concurrent requests.             *)
(***************************************************************************)
C2_DayNeverOverbooked ==
    \A k \in 1..Len(bookings) :
        Cardinality(RowsOn(bookings, bookings[k].date)) <= DailyLimit

(***************************************************************************)
(* C3.  The table holds at most one booking per identity and calendar      *)
(* week.  The handler has no weekly check at all.                          *)
(***************************************************************************)
C3_OneBookingPerIdentityAndWeek ==
    LET n == Len(bookings)
        week(k) == WeekOf(bookings[k].date)
    IN \* no two rows share (email ignoring case, week) or (phone, week)
       /\ Cardinality({<<ToLower(bookings[k].email), week(k)>> : k \in 1..n}) = n
       /\ Cardinality({<<bookings[k].phone, week(k)>> : k \in 1..n}) = n

(***************************************************************************)
(* C4.  A valid request for (d, s) that arrives when the bookings for      *)
(* (d, s) are already at the per-slot capacity never gets past the slot    *)
(* lookup, and unless that lookup fails in the store it is answered 409    *)
(* "This time slot is already booked" (SlotFull).                          *)
(***************************************************************************)
C4_FullSlotRejected ==
    \A i \in DOMAIN reqs :
        reqs[i].atSubmit.slot >= SlotCapacity =>
            /\ reqs[i].pc \in {"slotCheck", "done"}
            /\ (Done(reqs[i]) /\ Result(reqs[i], "slot") # StoreFailed) =>
                  /\ reqs[i].resp.status = 409
                  /\ Cause(reqs[i].resp) = "SlotFull"

\* a request that arrived for a taken slot has been answered SlotFull
C4_Witness ==
    \E i \in DOMAIN reqs :
        /\ reqs[i].atSubmit.slot >= SlotCapacity
        /\ Done(reqs[i])
        /\ Cause(reqs[i].resp) = "SlotFull"

(***************************************************************************)
(* C5, as claimed.  Once the bookings of a date have reached the daily     *)
(* capacity, every further request for that date that the store answers is *)
(* rejected with DailyLimitReached.  (The slot lookup runs first: a        *)
(* request for a taken slot of that date is answered SlotFull.)            *)
(***************************************************************************)
C5_AlwaysDailyLimitReached ==
    \A i \in DOMAIN reqs :
        (/\ reqs[i].atSubmit.day >= DailyLimit
         /\ Done(reqs[i])
         /\ reqs[i].resp.status # 500)
            => Cause(reqs[i].resp) = "DailyLimitReached"

(***************************************************************************)
(* C5, amended.  Once the bookings of a date have reached the daily        *)
(* capacity, no further request for that date is committed or reaches the  *)
(* insert; one whose slot lookup finds the slot free, and whose daily      *)
(* count does not fail, is answered 409 DailyLimitReached, and one whose   *)
(* slot lookup finds the slot taken is answered 409 SlotFull.              *)
(***************************************************************************)
C5_FullDayRejected ==
    \A i \in DOMAIN reqs :
        reqs[i].atSubmit.day >= DailyLimit =>
            /\ reqs[i].pc # "insert"
            /\ ~Committed(reqs[i])
            /\ Result(reqs[i], "insert") = NotRun
            /\ Done(reqs[i]) =>
                  /\ (Result(reqs[i], "slot") = 0 /\ Result(reqs[i], "daily") # StoreFailed)
                        => Cause(reqs[i].resp) = "DailyLimitReached"
                  /\ Result(reqs[i], "slot") > 0 => Cause(reqs[i].resp) = "SlotFull"

\* a request for a free slot of a date at its daily capacity was answered
\* DailyLimitReached
C5_Witness ==
    \E i \in DOMAIN reqs :
        /\ reqs[i].atSubmit.day >= DailyLimit
        /\ reqs[i].atSubmit.slot < SlotCapacity
        /\ Result(reqs[i], "slot") = 0
        /\ Done(reqs[i])
        /\ Cause(reqs[i].resp) = "DailyLimitReached"

(***************************************************************************)
(* C6.  A request whose identity already holds a booking in the calendar   *)
(* week of its date is not committed.  The handler never looks at the      *)
(* identity or the week.                                                   *)
(***************************************************************************)
C6_WeeklyLimitEnforced ==
    \A i \in DOMAIN reqs :
        reqs[i].atSubmit.week > 0 => ~Committed(reqs[i])

\* the step taken is a step of request i (its arrival included)
StepOf(i) == i \notin DOMAIN reqs \/ reqs'[i] # reqs[i]

(***************************************************************************)
(* C7.  The step that commits a request for (d, s) raises the number of    *)
(* bookings for (d, s) by exactly 1, leaves the number for every other     *)
(* (date, time_slot) as it was, and leaves every earlier row as it was.    *)
(***************************************************************************)
C7_CommitAddsOneRow ==
    [][\A i \in DOMAIN reqs :
          (~Committed(reqs[i]) /\ Committed(reqs'[i])) =>
              LET d == reqs[i].body.date
                  col == TimeSlotColumn(usePostgreSQL, reqs[i].body.time_slot)
                  n == Len(bookings)
              IN /\ Cardinality(RowsFor(bookings', d, col))
                      = Cardinality(RowsFor(bookings, d, col)) + 1
                 \* the one new row is a row for (d, s), so that no other
                 \* (date, time_slot) gains or loses a row
                 /\ Len(bookings') = n + 1
                 /\ <<bookings'[n + 1].date, bookings'[n + 1].time_slot>> = <<d, col>>
                 /\ \A k \in 1..n : bookings'[k] = bookings[k]
      ]_vars

\* a request has been committed into a table that held other rows, and the
\* row with the id it was given is the booking it asked for
C7_Witness ==
    \E i \in DOMAIN reqs :
        /\ Committed(reqs[i])
        /\ Len(bookings) >= 2
        /\ \E k \in 1..Len(bookings) :
              /\ bookings[k].id = reqs[i].resp.id
              /\ bookings[k].date = reqs[i].body.date
              /\ bookings[k].phone = reqs[i].body.phone

(***************************************************************************)
(* C8.  No step of a request that leaves it uncommitted (its arrival, a    *)
(* check it passes, the 400 or the 409 that ends it) inserts, changes or   *)
(* removes a row of the table or draws an id.                              *)
(***************************************************************************)
C8_RejectionLeavesStore ==
    [][\A i \in DOMAIN reqs' :
          (StepOf(i) /\ reqs'[i].resp.status \in {0, 400, 409})
              => bookings' = bookings /\ idSeq' = idSeq
      ]_vars

\* a request has ended with an admission rejection while the table held
\* bookings
C8_Witness ==
    /\ bookings # <<>>
    /\ \E i \in DOMAIN reqs :
          /\ Rejected(reqs[i])
          /\ reqs[i].resp.status = 409

(***************************************************************************)
(* C9.  A valid request is carried through to the commit whenever each     *)
(* check finds room and the store reports no error: the slot lookup passes *)
(* when the bookings for (d, s) are below the per-slot capacity, the daily *)
(* count passes when the bookings of d are below the daily capacity, and   *)
(* the insert then stores the booking and answers 201 with its id.         *)
(* Bookings for other slots of d or of the same identity in another week   *)
(* do not stand in the way.                                                *)
(***************************************************************************)
C9_AdmittedWhenRoom ==
    [][\A i \in DOMAIN reqs :
          LET r == reqs[i]
              b == reqs[i].body
              col == TimeSlotColumn(usePostgreSQL, b.time_slot)
          IN (reqs'[i] # r /\ reqs'[i].resp.status # 500) =>
                /\ (/\ r.pc = "slotCheck"
                    /\ Cardinality(RowsFor(bookings, b.date, col)) < SlotCapacity)
                      => reqs'[i].pc = "dailyCheck"
                /\ (/\ r.pc = "dailyCheck"
                    /\ Cardinality(RowsOn(bookings, b.date)) < DailyLimit)
                      => reqs'[i].pc = "insert"
                /\ r.pc = "insert" =>
                      /\ Committed(reqs'[i])
                      /\ reqs'[i].resp.id > 0
                      /\ \E k \in 1..Len(bookings') :
                            /\ bookings'[k].id = reqs'[i].resp.id
                            /\ bookings'[k].date = b.date
                            /\ bookings'[k].time_slot = col
                            /\ bookings'[k].phone = b.phone
      ]_vars

\* one request was committed on a date on which another slot was taken, and
\* one was committed although its identity held a booking the week before
C9_Witness ==
    /\ \E i \in DOMAIN reqs :
          /\ Committed(reqs[i])
          /\ reqs[i].atSubmit.day > 0
          /\ reqs[i].atSubmit.slot = 0
    /\ \E j \in DOMAIN reqs :
          /\ Committed(reqs[j])
          /\ \E k \in 1..Len(bookings) :
                /\ bookings[k].id < reqs[j].resp.id
                /\ bookings[k].email = reqs[j].body.email
                /\ WeekOf(bookings[k].date) + 1 = WeekOf(reqs[j].body.date)

(***************************************************************************)
(* C10.  A rejected request that broke more than one admission rule is     *)
(* told the first one in the order slot capacity, weekly restriction,      *)
(* daily capacity: on a date at its daily capacity, SlotFull when the slot *)
(* lookup found the slot taken, else WeeklyLimitExceeded when the identity *)
(* already held a booking in that week.  (The handler has no weekly check: *)
(* such a request is told DailyLimitReached.)                              *)
(***************************************************************************)
C10_FirstBrokenRuleReported ==
    \A i \in DOMAIN reqs :
        (/\ Done(reqs[i])
         /\ reqs[i].resp.status = 409
         /\ reqs[i].atSubmit.day >= DailyLimit)
            => /\ Result(reqs[i], "slot") > 0 => Cause(reqs[i].resp) = "SlotFull"
               /\ (Result(reqs[i], "slot") = 0 /\ reqs[i].atSubmit.week > 0)
                     => Cause(reqs[i].resp) = "WeeklyLimitExceeded"

(***************************************************************************)
(* The read endpoints.  Each runs one SELECT and builds its response in    *)
(* the callback, so a response is a function of the table at the moment    *)
(* the statement runs; the operators below give the 200 response for a     *)
(* table.                                                                  *)
(***************************************************************************)
\* index.js:186-187  moment('09:00', 'HH:mm') and moment('18:00', 'HH:mm')
StartTime == 9 * 60
EndTime == 18 * 60

\* index.js:191  startTime.add(30, 'minutes')
SlotMinutes == 30

\* index.js:189-192  while (startTime.isBefore(endTime)) push format('HH:mm')
RECURSIVE TimeSlotsFrom(_)
TimeSlotsFrom(t) ==
    IF t < EndTime THEN <<FormatHHmm(t)>> \o TimeSlotsFrom(t + SlotMinutes)
    ELSE <<>>

TimeSlots == TimeSlotsFrom(StartTime)

Range(seq) == {seq[k] : k \in 1..Len(seq)}

\* SELECT time_slot[::text] FROM bookings WHERE date = d, in table order.
\* The text of a PostgreSQL TIME is what the column holds, HH:MM:SS.
RECURSIVE SelectTimeSlots(_, _)
SelectTimeSlots(table, d) ==
    IF table = <<>> THEN <<>>
    ELSE LET rest == SelectTimeSlots(SubSeq(table, 1, Len(table) - 1), d)
             row == table[Len(table)]
         IN IF row.date = d THEN Append(rest, row.time_slot) ELSE rest

\* index.js:212 / :227
MaxBookings == 50

\* index.js:202 / :217  timeSlots.filter(slot => !bookedSlots.includes(slot))
AvailableSlots(bookedSlots) ==
    LET Free(slot) == slot \notin Range(bookedSlots)
    IN SelectSeq(TimeSlots, Free)

\* index.js:177-230  GET /api/slots/:date for a date in YYYY-MM-DD form
GetSlots(table, d) ==
    LET bookedSlots == SelectTimeSlots(table, d)
    IN [date |-> d,
        availableSlots |-> AvailableSlots(bookedSlots),
        bookedSlots |-> bookedSlots,
        totalBookings |-> Len(bookedSlots),
        maxBookings |-> MaxBookings]

\* index.js:244 / :263
MaxSlots == 18

Max(a, b) == IF a > b THEN a ELSE b

\* ((n / d) * 100).toFixed(1), in tenths of a percent
PercentToFixed1(n, d) == (2 * n * 1000 + d) \div (2 * d)

\* index.js:233-275  GET /api/slots/status/overall when moment() is today
GetOverallStatus(table, today) ==
    LET totalBookings == CountByDate(table, today)
    IN [date |-> today,
        availableSlots |-> Max(0, MaxSlots - totalBookings),
        totalBookings |-> totalBookings,
        maxSlots |-> MaxSlots,
        utilizationRate |-> PercentToFixed1(totalBookings, MaxSlots)]

\* calendar order of dates
DateLess(a, b) ==
    \/ a[1] < b[1]
    \/ a[1] = b[1] /\ a[2] < b[2]
    \/ a[1] = b[1] /\ a[2] = b[2] /\ a[3] < b[3]

\* code points of the characters a time_slot column holds
CharCode(c) == IF c = ":" THEN 58 ELSE 48 + DigitVal(c)

\* text order.  SQLite compares the TEXT column this way; PostgreSQL
\* compares times of day, which for its HH:MM:SS texts is the same order.
RECURSIVE TextLess(_, _)
TextLess(a, b) ==
    IF b = <<>> THEN FALSE
    ELSE IF a = <<>> THEN TRUE
    ELSE IF a[1] # b[1] THEN CharCode(a[1]) < CharCode(b[1])
    ELSE TextLess(Tail(a), Tail(b))

\* index.js:374  ORDER BY date DESC, time_slot ASC: a sorts before b
RowBefore(a, b) ==
    \/ DateLess(b.date, a.date)
    \/ a.date = b.date /\ TextLess(a.time_slot, b.time_slot)

\* the sort; rows the ordering does not tell apart stay in table order
InsertRow(sorted, r) ==
    LET k == Cardinality({j \in 1..Len(sorted) : ~RowBefore(r, sorted[j])})
    IN SubSeq(sorted, 1, k) \o <<r>> \o SubSeq(sorted, k + 1, Len(sorted))

RECURSIVE OrderBy(_)
OrderBy(rows) ==
    IF rows = <<>> THEN <<>>
    ELSE InsertRow(OrderBy(SubSeq(rows, 1, Len(rows) - 1)), rows[Len(rows)])

\* a query parameter that was not sent
NoDate == <<0, 0, 0>>

\* index.js:370  date BETWEEN $1 AND $2
InRange(d, startDate, endDate) ==
    /\ ~DateLess(d, startDate)
    /\ ~DateLess(endDate, d)

\* a listing that filters by each bound that was sent
ListBookingsEitherBound(table, startDate, endDate) ==
    LET Wanted(row) ==
            /\ startDate # NoDate => ~DateLess(row.date, startDate)
            /\ endDate # NoDate => ~DateLess(endDate, row.date)
    IN OrderBy(SelectSeq(table, Wanted))

\* index.js:363-393  GET /api/admin/bookings; the WHERE clause is added
\* only when both parameters were sent
ListBookings(table, startDate, endDate) ==
    LET Wanted(row) ==
            (startDate # NoDate /\ endDate # NoDate)
                => InRange(row.date, startDate, endDate)
    IN OrderBy(SelectSeq(table, Wanted))

(***************************************************************************)
(* A second specification: the same handlers over a table that holds       *)
(* bookings of several days, and requests for times on and off the grid    *)
(* GET /api/slots/:date offers.                                            *)
(***************************************************************************)
Slot0800 == <<"0", "8", ":", "0", "0">>
Slot900 == <<"9", ":", "0", "0">>
Slot1000 == <<"1", "0", ":", "0", "0">>

\* a free slot of the grid; 08:00, which the grid does not hold; 9:00
\* written without the leading zero; a slot that is taken; a body with a
\* phone that fails and a time off the grid
BodiesWeek ==
    {Body(EmailLower, Phone91, Mon0603, s) :
        s \in {Slot0900, Slot0800, Slot900, Slot0930}}
    \cup {Body(EmailLower, <<"a", "b", "c">>, Mon0603, Slot0800)}

\* the k-th earlier booking, made for date d at time s
WeekRow(pg, k, d, s) ==
    [PriorRow(pg, k) EXCEPT !.date = d, !.time_slot = TimeSlotColumn(pg, s)]

WeekBookings(pg) ==
    <<WeekRow(pg, 1, Tue0604, Slot1000),
      WeekRow(pg, 2, Mon0603, Slot0930),
      WeekRow(pg, 3, Mon0610, Slot0900),
      WeekRow(pg, 4, Mon0603, Slot1000)>>

InitWeek ==
    /\ usePostgreSQL \in BOOLEAN
    /\ SetupDone
    /\ bookings = WeekBookings(usePostgreSQL)
    /\ idSeq = Len(bookings)
    /\ reqs = <<>>
    /\ NoPage

NextWeek ==
    \/ \E b \in BodiesWeek : Submit(b)
    \/ \E i \in DOMAIN reqs : SlotCheck(i)
    \/ \E i \in DOMAIN reqs : DailyCheck(i)
    \/ \E i \in DOMAIN reqs : Insert(i)

SpecWeek == InitWeek /\ [][NextWeek]_vars

\* the dates a read is asked for
Dates == {Mon0603, Tue0604, Mon0610}

(***************************************************************************)
(* C11.  A request whose time_slot is a well-formed HH:MM value outside    *)
(* the slot catalog is rejected with a ValidationError and never           *)
(* committed.  validateBooking only matches the pattern: 08:00 passes, is  *)
(* admitted and stored.                                                    *)
(***************************************************************************)
C11_OffCatalogRejected ==
    \A i \in DOMAIN reqs :
        (MatchesTimeSlot(reqs[i].body.time_slot)
         /\ \A k \in 1..Len(TimeSlots) :
               TimeOfDay(TimeSlots[k]) # TimeOfDay(reqs[i].body.time_slot))
            => /\ Cause(reqs[i].resp) = "ValidationError"
               /\ \E k \in 1..Len(reqs[i].resp.errors) :
                     reqs[i].resp.errors[k] = "time_slot"

(***************************************************************************)
(* C12.  A request that omits the optional email, is otherwise valid and   *)
(* passes the slot and the daily check is committed and answered 201: it   *)
(* is turned neither into a validation error nor into a failure of the     *)
(* store.  The email column is NOT NULL in both schemas, so the INSERT of   *)
(* such a request is refused and the request answered 500.                 *)
(***************************************************************************)
C12_NoEmailCommitted ==
    \A i \in DOMAIN reqs :
        LET r == reqs[i] IN
        (r.body.email = Undefined
         /\ ValidationErrors([r.body EXCEPT !.email = EmailLower]) = <<>>)
            => /\ Cause(r.resp) # "ValidationError"
               /\ (/\ Done(r)
                   /\ Result(r, "slot") = 0
                   /\ Result(r, "daily") \in 0..(DailyLimit - 1)
                   /\ Result(r, "insert") # StoreFailed)
                     => Committed(r)

(***************************************************************************)
(* The callbacks of the statements a request has issued are called: the    *)
(* pool and the sqlite3 binding call back once per statement, with the     *)
(* result or with err.                                                     *)
(***************************************************************************)
\* a valid request, one without email and one that fails validation
BodiesFair ==
    {Body(EmailLower, Phone91, Mon0603, Slot0900),
     Body(Undefined, Phone92, Mon0603, Slot0930),
     Body(EmailLower, <<"a", "b", "c">>, Mon0603, Slot0900)}

NextFair ==
    \/ \E b \in BodiesFair : Submit(b)
    \/ \E i \in DOMAIN reqs : SlotCheck(i)
    \/ \E i \in DOMAIN reqs : DailyCheck(i)
    \/ \E i \in DOMAIN reqs : Insert(i)

\* the callback of the statement request i waits for
Callback(i) ==
    /\ i \in DOMAIN reqs
    /\ SlotCheck(i) \/ DailyCheck(i) \/ Insert(i)

FairSpec ==
    /\ Init
    /\ [][NextFair]_vars
    /\ \A i \in 1..MaxRequests : WF_vars(Callback(i))

(***************************************************************************)
(* C13.  Provided the callbacks are called, every request reaches a        *)
(* terminal outcome: 201, 400, 409 or the generic 500 (requests are never  *)
(* taken back and an ended request stays ended, so this is: from some      *)
(* point on every request that has arrived has ended).  It sends one       *)
(* response: none before the request ends, and the one sent is never       *)
(* changed.  A row is stored for the request exactly when the outcome is   *)
(* Committed: the step that ends a request with 201 is the one step of the *)
(* request that adds a row, and the row stays in the table.                *)
(***************************************************************************)
C13_OneOutcome ==
    /\ <>[](\A i \in DOMAIN reqs : Done(reqs[i]))
    /\ [](\A i \in DOMAIN reqs :
            LET r == reqs[i] IN
            /\ ~Done(r) => r.resp = NoResponse
            /\ Done(r) => Cause(r.resp) \in {"Committed", "ValidationError",
                              "SlotFull", "DailyLimitReached", "StoreError"}
            /\ Committed(r) <=>
                  \E k \in 1..Len(bookings) :
                     /\ bookings[k].id = r.resp.id
                     /\ bookings[k].date = r.body.date
                     /\ bookings[k].phone = r.body.phone)
    /\ [][\A i \in DOMAIN reqs' :
            StepOf(i) =>
               /\ Committed(reqs'[i]) <=> bookings' # bookings
               /\ i \in DOMAIN reqs => ~Done(reqs[i])
               /\ Len(bookings') >= Len(bookings)
               /\ SubSeq(bookings', 1, Len(bookings)) = bookings
       ]_vars

\* requests have ended with each of the outcomes, one of them stored
C13_Witness ==
    /\ Len(reqs) = MaxRequests
    /\ \A i \in DOMAIN reqs : Done(reqs[i])
    /\ \E i \in DOMAIN reqs : Committed(reqs[i])
    /\ \E i \in DOMAIN reqs : ~Committed(reqs[i])

(***************************************************************************)
(* C14.  When the slot lookup, the daily count or the insert of a request  *)
(* returns an error, the request ends with a generic failure response, one *)
(* of two fixed messages and nothing of what the store said, and the step  *)
(* stores no booking: the request is not committed.                        *)
(***************************************************************************)
C14_StoreErrorIsGeneric ==
    /\ [](\A i \in DOMAIN reqs :
            LET r == reqs[i] IN
            (\E k \in 1..Len(r.queries) :
                r.queries[k].res \in {StoreFailed, ConstraintFailed})
               => /\ Done(r)
                  /\ r.resp.status = 500
                  /\ r.resp.error \in {DatabaseErrorMsg, InsertFailedMsg}
                  /\ r.resp.error \notin {StoreErrorText, ConstraintErrorText}
                  /\ r.resp.errors = <<>>
                  /\ r.resp.id = 0
                  /\ ~Committed(r)
                  /\ r.queries[Len(r.queries)].res \in {StoreFailed, ConstraintFailed})
    /\ [][\A i \in DOMAIN reqs' :
            (StepOf(i) /\ reqs'[i].resp.status = 500) => bookings' = bookings
       ]_vars

\* requests have ended on a failed count and on a failed insert
C14_Witness ==
    /\ \E i \in DOMAIN reqs : Result(reqs[i], "daily") = StoreFailed
    /\ \E i \in DOMAIN reqs : Result(reqs[i], "insert") = StoreFailed

(***************************************************************************)
(* C15.  A request that violates several field constraints is answered    *)
(* 400 with a list that names every violated field, and a request answered *)
(* 400 has run no statement on the store.  The constraints are those of    *)
(* the validation stage: name and purpose by trimmed length, email by      *)
(* syntax when present, phone by its pattern with whitespace taken out,    *)
(* date a calendar date, time_slot a time of the slot catalog.  The list   *)
(* names every field whose chain fails, but no chain tests the catalog     *)
(* (C11): a body with a bad phone and the time 08:00 is answered with a    *)
(* list that names phone alone.                                            *)
(***************************************************************************)
C15_EveryViolationNamed ==
    \A i \in DOMAIN reqs :
        LET r == reqs[i]
            b == reqs[i].body
            NotSpace(c) == c # " "
            violated ==
                {f \in {"name"} : Len(Trim(b.name)) < 2 \/ Len(Trim(b.name)) > 255}
                \cup {f \in {"email"} : b.email # Undefined /\ ~IsEmail(b.email)}
                \cup {f \in {"phone"} : ~MatchesPhone(SelectSeq(b.phone, NotSpace))}
                \cup {f \in {"purpose"} :
                         Len(Trim(b.purpose)) < 5 \/ Len(Trim(b.purpose)) > 1000}
                \cup {f \in {"date"} : ~IsISO8601(b.date)}
                \cup {f \in {"time_slot"} :
                         \/ ~MatchesTimeSlot(b.time_slot)
                         \/ \A k \in 1..Len(TimeSlots) :
                               TimeOfDay(TimeSlots[k]) # TimeOfDay(b.time_slot)}
        IN /\ Cardinality(violated) > 1 =>
                /\ r.resp.status = 400
                /\ violated \subseteq Range(r.resp.errors)
           /\ r.resp.status = 400 => r.queries = <<>>

(***************************************************************************)
(* C16.  For every date, the booking counts GET /api/slots/:date reports   *)
(* for the slots of the catalog add up to the totalBookings of the same    *)
(* response.  The response carries bookedSlots, one entry for each row of  *)
(* the date, and totalBookings, their number; the count it reports for a   *)
(* slot is the number of entries equal to the slot.  Entries that are no   *)
(* slot of the catalog are in the total and in no slot's count: every      *)
(* entry of the PostgreSQL branch, which reads HH:MM:SS, and an entry      *)
(* 08:00 of the SQLite branch.                                             *)
(***************************************************************************)
C16_SlotCountsAddUp ==
    \A d \in Dates :
        LET g == GetSlots(bookings, d)
            count(slot) ==
                Cardinality({k \in 1..Len(g.bookedSlots) : g.bookedSlots[k] = slot})
            sum[n \in 0..Len(TimeSlots)] ==
                IF n = 0 THEN 0 ELSE sum[n - 1] + count(TimeSlots[n])
        IN sum[Len(TimeSlots)] = g.totalBookings

(***************************************************************************)
(* C17.  GET /api/slots/:date reports a slot of the catalog as available   *)
(* (in availableSlots) exactly when the bookings of the date at that time  *)
(* of day are fewer than the per-slot capacity, and as booked (in          *)
(* bookedSlots) otherwise; hence never as both and never as neither.  The  *)
(* PostgreSQL branch compares the HH:MM:SS text of the column with the     *)
(* HH:mm strings of the catalog and reports every slot as available.       *)
(***************************************************************************)
C17_AvailableIffBelowCapacity ==
    \A d \in Dates :
        LET g == GetSlots(bookings, d) IN
        \A n \in 1..Len(TimeSlots) :
            LET slot == TimeSlots[n]
                held == {k \in 1..Len(bookings) :
                            /\ bookings[k].date = d
                            /\ TimeOfDay(bookings[k].time_slot) = TimeOfDay(slot)}
            IN /\ slot \in Range(g.availableSlots) <=> Cardinality(held) < SlotCapacity
               /\ slot \in Range(g.bookedSlots) <=> Cardinality(held) >= SlotCapacity

(***************************************************************************)
(* C18.  Reads and admission checks reflect the table as it is: once a     *)
(* request for (d, s) has been answered 201, GET /api/slots/d counts its   *)
(* booking in totalBookings and reports s as booked, not as available,     *)
(* and the slot lookup and the daily count of an admission for (d, s)      *)
(* find it.  Each of them reads the table anew, but the PostgreSQL branch  *)
(* of GET /api/slots/d reports the booking as HH:MM:SS, so s itself is     *)
(* not among bookedSlots and stays among availableSlots.                   *)
(***************************************************************************)
C18_ReadsSeeCommitted ==
    \A i \in DOMAIN reqs :
        Committed(reqs[i]) =>
            LET d == reqs[i].body.date
                s == reqs[i].body.time_slot
                g == GetSlots(bookings, d)
                own == {k \in 1..Len(bookings) : bookings[k].id = reqs[i].resp.id}
            IN /\ own # {}
               /\ own \subseteq RowsOn(bookings, d)
               /\ g.totalBookings = Cardinality(RowsOn(bookings, d))
               /\ s \in Range(g.bookedSlots)
               /\ s \notin Range(g.availableSlots)
               /\ own \subseteq SelectByDateAndSlot(bookings, usePostgreSQL, d, s)
               /\ SlotTaken(SelectByDateAndSlot(bookings, usePostgreSQL, d, s))
               /\ CountByDate(bookings, d) = Cardinality(RowsOn(bookings, d))

(***************************************************************************)
(* C19.  GET /api/slots/status/overall reports as totalBookings the number *)
(* of bookings dated today and measures it against the daily capacity of   *)
(* the admission: availableSlots is the capacity less totalBookings, and   *)
(* utilizationRate is totalBookings as a percentage of the capacity, to    *)
(* one decimal, hence between 0 and 100.  The handler measures against 18, *)
(* the number of slots, while the admission lets 50 bookings in.           *)
(***************************************************************************)
C19_StatusUsesDailyCapacity ==
    \A today \in Dates :
        LET o == GetOverallStatus(bookings, today)
            n == Cardinality(RowsOn(bookings, today))
        IN /\ o.totalBookings = n
           /\ o.availableSlots = DailyLimit - n
           /\ o.utilizationRate = PercentToFixed1(n, DailyLimit)
           /\ o.utilizationRate \in 0..1000

(***************************************************************************)
(* C20.  GET /api/admin/bookings with startDate and endDate returns        *)
(* exactly the bookings dated within the inclusive range, and without them *)
(* all bookings; either result is ordered by date, latest first, and       *)
(* within a date by time_slot, earliest time of day first.  SQLite orders  *)
(* its TEXT column as text, which puts a stored 9:00 after 10:00.          *)
(***************************************************************************)
C20_ListFilteredAndOrdered ==
    \A startDate, endDate \in Dates \cup {NoDate} :
        (startDate = NoDate <=> endDate = NoDate) =>
            LET res == ListBookings(bookings, startDate, endDate)
                Day(d) == d[1] * 10000 + d[2] * 100 + d[3]
                wanted == {k \in 1..Len(bookings) :
                              startDate # NoDate =>
                                  /\ Day(startDate) <= Day(bookings[k].date)
                                  /\ Day(bookings[k].date) <= Day(endDate)}
            IN /\ Range(res) = {bookings[k] : k \in wanted}
               /\ Len(res) = Cardinality(wanted)
               /\ \A j \in 1..(Len(res) - 1) :
                     \/ Day(res[j].date) > Day(res[j + 1].date)
                     \/ /\ res[j].date = res[j + 1].date
                        /\ TimeOfDay(res[j].time_slot) <= TimeOfDay(res[j + 1].time_slot)

(***************************************************************************)
(* GET /api/admin/export: the rows of the sheet, in the order of the       *)
(* query's result.                                                         *)
(***************************************************************************)
\* index.js:416-425 / :458-467  rows.map(row => ({ 'ID': row.id, ... }))
ExcelRow(row) ==
    [ID |-> row.id, Name |-> row.name, Email |-> row.email, Phone |-> row.phone,
     Purpose |-> row.purpose, Date |-> row.date, TimeSlot |-> row.time_slot,
     CreatedAt |-> row.created_at]

\* an export whose query has lost its ORDER BY
ExportBookingsUnordered(table, startDate, endDate) ==
    LET Wanted(row) ==
            (startDate # NoDate /\ endDate # NoDate)
                => InRange(row.date, startDate, endDate)
        rows == SelectSeq(table, Wanted)
    IN [k \in 1..Len(rows) |-> ExcelRow(rows[k])]

\* index.js:396-484  GET /api/admin/export
ExportBookings(table, startDate, endDate) ==
    LET Wanted(row) ==
            (startDate # NoDate /\ endDate # NoDate)
                => InRange(row.date, startDate, endDate)
        rows == OrderBy(SelectSeq(table, Wanted))
    IN [k \in 1..Len(rows) |-> ExcelRow(rows[k])]

(***************************************************************************)
(* C21.  For the same startDate and endDate, sent or not, and the same     *)
(* table, GET /api/admin/bookings and GET /api/admin/export yield the same *)
(* booking ids in the same order.                                          *)
(***************************************************************************)
C21_ListAndExportAgree ==
    \A startDate, endDate \in Dates \cup {NoDate} :
        LET list == ListBookings(bookings, startDate, endDate)
            sheet == ExportBookings(bookings, startDate, endDate)
        IN /\ Len(list) = Len(sheet)
           /\ \A k \in 1..Len(list) : list[k].id = sheet[k].ID

\* a booking has been committed, the list is not in table order, and some
\* range leaves rows out
C21_Witness ==
    /\ \E i \in DOMAIN reqs : Committed(reqs[i])
    /\ ListBookings(bookings, NoDate, NoDate) # bookings
    /\ \E startDate, endDate \in Dates :
          LET sheet == ExportBookings(bookings, startDate, endDate)
          IN Len(sheet) > 1 /\ Len(sheet) < Len(bookings)

(***************************************************************************)
(* C22.  A committed booking is never changed and never removed: every     *)
(* step leaves each row of the table in its place with all its fields, id, *)
(* name, email, phone, purpose, date, time_slot and created_at.  The       *)
(* handlers issue INSERT and SELECT statements only; no handler deletes.   *)
(***************************************************************************)
C22_BookingsImmutable ==
    [][/\ Len(bookings') >= Len(bookings)
       /\ \A k \in 1..Len(bookings) : bookings'[k] = bookings[k]
       /\ \A i \in DOMAIN reqs :
             Committed(reqs[i]) =>
                \E k \in 1..Len(bookings') :
                   /\ bookings'[k].id = reqs[i].resp.id
                   /\ bookings'[k].phone = reqs[i].body.phone
                   /\ bookings'[k].date = reqs[i].body.date
      ]_vars

\* a booking was committed and another request ran to its end afterwards
C22_Witness ==
    \E i, j \in DOMAIN reqs :
        /\ Committed(reqs[i])
        /\ Committed(reqs[j])
        /\ reqs[i].resp.id < reqs[j].resp.id
        /\ \E k \in 1..Len(bookings) : bookings[k].id = reqs[i].resp.id

(***************************************************************************)
(* A third specification: the process from its start.  Loading index.js    *)
(* runs the database setup and app.listen; with DATABASE_URL the pool is   *)
(* created and SELECT NOW() is sent, without it initSQLite runs at once.   *)
(* Requests are served from then on, and the callback of SELECT NOW() is   *)
(* called at some later point.                                             *)
(***************************************************************************)
\* a connection test whose failure also switches the handlers to the pool
ConnectionTestSwitching ==
    /\ connTest = "pending"
    /\ \E err \in BOOLEAN :
          /\ db' = IF err THEN TRUE ELSE db
          /\ usePostgreSQL' = TRUE
    /\ connTest' = "done"
    /\ UNCHANGED <<pool, client, bookings, idSeq, reqs>>

\* index.js:54-69  the callback of pool.query('SELECT NOW()'): initSQLite()
\* on err (index.js:84-104 assigns db), usePostgreSQL = true otherwise
ConnectionTest ==
    /\ connTest = "pending"
    /\ \E err \in BOOLEAN :
          IF err
          THEN db' = TRUE /\ UNCHANGED usePostgreSQL
          ELSE usePostgreSQL' = TRUE /\ UNCHANGED db
    /\ connTest' = "done"
    /\ UNCHANGED <<pool, client, bookings, idSeq, reqs>>

\* index.js:41-73, :535  the state once index.js has been loaded
InitStartup ==
    /\ usePostgreSQL = FALSE
    /\ \E url \in BOOLEAN :
          /\ pool = url
          /\ db = ~url
          /\ connTest = IF url THEN "pending" ELSE "none"
    /\ bookings = <<>>
    /\ idSeq = 0
    /\ reqs = <<>>
    /\ NoPage

NextStartup ==
    \/ ConnectionTest
    \/ \E b \in BodiesFair : Submit(b)
    \/ \E i \in DOMAIN reqs : SlotCheck(i)
    \/ \E i \in DOMAIN reqs : DailyCheck(i)
    \/ \E i \in DOMAIN reqs : Insert(i)

SpecStartup == InitStartup /\ [][NextStartup]_vars

(***************************************************************************)
(* C23.  A handler that accesses the store finds the handle of its branch  *)
(* initialised: with usePostgreSQL true the pool exists and its connection *)
(* test has succeeded, with usePostgreSQL false db is not null, also for a *)
(* request that arrives before the connection test has called back.  Such  *)
(* a request finds usePostgreSQL false and db null.                        *)
(***************************************************************************)
C23_HandleInitialised ==
    \A i \in DOMAIN reqs :
        reqs[i].branch # "none" =>
            /\ Result(reqs[i], "slot") # NoHandle
            /\ reqs[i].resp.error # TypeErrorText

\* the pool calls the callback of SELECT NOW() back, with a result or with err
FairStartup == SpecStartup /\ WF_vars(ConnectionTest)

(***************************************************************************)
(* C24.  The backend is chosen once per process.  Of 'usePostgreSQL        *)
(* becomes true' and 'initSQLite is called' (which assigns db) never both  *)
(* happen, and exactly one has happened from the end of the setup on;      *)
(* usePostgreSQL changes only in the callback of the connection test, from *)
(* false to true, and db only from null to a handle; and all requests      *)
(* whose statements ran on a store took the same branch.                   *)
(***************************************************************************)
C24_BackendChosenOnce ==
    /\ <>[](usePostgreSQL # db)
    /\ [](/\ ~(usePostgreSQL /\ db)
          /\ connTest # "pending" => usePostgreSQL # db
          /\ \A i, j \in DOMAIN reqs :
                (/\ Result(reqs[i], "slot") \notin {NotRun, NoHandle}
                 /\ Result(reqs[j], "slot") \notin {NotRun, NoHandle})
                   => reqs[i].branch = reqs[j].branch)
    /\ [][/\ usePostgreSQL' # usePostgreSQL =>
                ~usePostgreSQL /\ connTest = "pending" /\ connTest' = "done"
          /\ db' # db => ~db /\ connTest = "pending" /\ connTest' = "done"
          /\ connTest # "pending" => connTest' = connTest
      ]_vars

\* the connection test has called back between two requests, the second of
\* which was committed
C24_Witness ==
    /\ connTest = "done"
    /\ \E i, j \in DOMAIN reqs :
          /\ Result(reqs[i], "slot") = NoHandle
          /\ Committed(reqs[j])

(***************************************************************************)
(* C25.  For the same bookings and the same date GET /api/slots/:date      *)
(* returns the same availableSlots from the PostgreSQL branch as from the  *)
(* SQLite branch, and in both a slot of the catalog that has a booking on  *)
(* the date is absent from availableSlots.  The PostgreSQL table of the    *)
(* bookings of a SQLite table holds their times of day in its TIME column. *)
(* Its branch reads them as HH:MM:SS and takes no slot off the list.       *)
(***************************************************************************)
C25_BranchesAgree ==
    \A d \in Dates :
        /\ ~usePostgreSQL =>
              LET inPostgres ==
                      [k \in 1..Len(bookings) |->
                          [bookings[k] EXCEPT !.time_slot = TimeSlotColumn(TRUE, @)]]
              IN GetSlots(inPostgres, d).availableSlots
                    = GetSlots(bookings, d).availableSlots
        /\ \A n \in 1..Len(TimeSlots) :
              (\E k \in 1..Len(bookings) :
                  /\ bookings[k].date = d
                  /\ TimeOfDay(bookings[k].time_slot) = TimeOfDay(TimeSlots[n]))
                 => TimeSlots[n] \notin Range(GetSlots(bookings, d).availableSlots)

(***************************************************************************)
(* C26.  On one and the same table, a slot that GET /api/slots/d lists in  *)
(* availableSlots is not rejected as already booked by the slot lookup of  *)
(* a POST /api/bookings for d, and a slot of the catalog that is not       *)
(* listed is rejected as already booked.  The PostgreSQL branch lists      *)
(* booked slots as available; the lookup, which compares times, finds      *)
(* their rows.                                                             *)
(***************************************************************************)
C26_AvailableMeansBookable ==
    \A d \in Dates :
        \A n \in 1..Len(TimeSlots) :
            TimeSlots[n] \in Range(GetSlots(bookings, d).availableSlots)
               <=> ~SlotTaken(SelectByDateAndSlot(bookings, usePostgreSQL, d,
                                                  TimeSlots[n]))

(***************************************************************************)
(* C27.  Two requests for the same date whose time_slot strings pass       *)
(* validation and denote the same time of day, such as 9:00 and 09:00, are *)
(* never both committed, the per-slot capacity being 1.  Stated for a      *)
(* request that arrives when the booking of the other is in the table, so  *)
(* that no interleaving of their statements is involved (that is C1).  The *)
(* SQLite lookup compares the strings and finds no row.                    *)
(***************************************************************************)
C27_SameTimeOfDayOnce ==
    \A i, j \in DOMAIN reqs :
        (/\ Committed(reqs[i])
         /\ reqs[j].body.date = reqs[i].body.date
         /\ reqs[j].atSubmit.day > reqs[i].atSubmit.day
         /\ MatchesTimeSlot(reqs[i].body.time_slot)
         /\ MatchesTimeSlot(reqs[j].body.time_slot)
         /\ TimeOfDay(reqs[j].body.time_slot) = TimeOfDay(reqs[i].body.time_slot))
            => ~Committed(reqs[j])

(***************************************************************************)
(* GET /api/admin/stats.                                                   *)
(***************************************************************************)
\* index.js:487-524  COUNT(*) of the rows, of the rows of the date when one
\* was sent, measured against 50
GetStats(table, date) ==
    LET total == IF date # NoDate THEN CountByDate(table, date) ELSE Len(table)
    IN [totalBookings |-> total,
        maxBookings |-> MaxBookings,
        availableBookings |-> MaxBookings - total]

(***************************************************************************)
(* C28.  GET /api/admin/stats reports availableBookings as maxBookings     *)
(* less totalBookings and never below 0, with a date and without one.      *)
(* Stated for tables on which no date holds more than the daily limit (a   *)
(* date above it is C2).  Without a date the count of all rows is measured *)
(* against the limit of one day.                                           *)
(***************************************************************************)
C28_StatsNeverNegative ==
    (\A d \in Dates : Cardinality(RowsOn(bookings, d)) <= DailyLimit) =>
        \A date \in Dates \cup {NoDate} :
            LET st == GetStats(bookings, date) IN
            /\ st.availableBookings = st.maxBookings - st.totalBookings
            /\ st.availableBookings >= 0

(***************************************************************************)
(* C29.  GET /api/admin/bookings and GET /api/admin/export filter by date  *)
(* only when both startDate and endDate are sent: then they return the     *)
(* bookings within the range, and when one of the two or none is sent they *)
(* return every booking, those outside the one bound included.             *)
(***************************************************************************)
C29_FilterNeedsBothBounds ==
    \A startDate, endDate \in Dates \cup {NoDate} :
        LET list == ListBookings(bookings, startDate, endDate)
            sheet == ExportBookings(bookings, startDate, endDate)
            Day(d) == d[1] * 10000 + d[2] * 100 + d[3]
            within == {k \in 1..Len(bookings) :
                          /\ Day(startDate) <= Day(bookings[k].date)
                          /\ Day(bookings[k].date) <= Day(endDate)}
            expected == IF startDate # NoDate /\ endDate # NoDate
                        THEN {bookings[k].id : k \in within}
                        ELSE {bookings[k].id : k \in 1..Len(bookings)}
        IN /\ {list[k].id : k \in 1..Len(list)} = expected
           /\ {sheet[k].ID : k \in 1..Len(sheet)} = expected
           /\ Len(list) = Cardinality(expected)
           /\ Len(sheet) = Cardinality(expected)

\* a booking has been committed, and a listing asked for with a start date
\* alone holds a booking dated before it
C29_Witness ==
    /\ \E i \in DOMAIN reqs : Committed(reqs[i])
    /\ \E startDate \in Dates :
          LET list == ListBookings(bookings, startDate, NoDate)
          IN \E k \in 1..Len(list) : DateLess(list[k].date, startDate)

(***************************************************************************)
(* The booking page (src/client/src/components/BookingInterface.js).  A    *)
(* fetchSlots call is a record of fetches: sent, then answered or failed   *)
(* by the server, then done once its continuation has run in the page.     *)
(* Nothing in the page cancels a call or tells an older response from a    *)
(* newer one, so the continuations run in the order the responses arrive.  *)
(***************************************************************************)
MaxFetches == 3

\* the slots the visitor clicks on
ClickedSlots == {Slot0900, Slot1000}

\* BookingInterface.js:31-34  setLoading(true) and the GET of getSlots(date)
FetchSlots(d) ==
    /\ Len(fetches) < MaxFetches
    /\ loading' = TRUE
    /\ fetches' = Append(fetches, [date |-> d, pc |-> "sent", data |-> NoSlotsData])

\* BookingInterface.js:145, :25-29  onDateSelect={setSelectedDate}, and the
\* effect on selectedDate calls fetchSlots
SelectDate(d) ==
    /\ selectedDate' = d
    /\ FetchSlots(d)
    /\ UNCHANGED <<setup, bookings, idSeq, reqs, selectedSlot, slotsData, posting>>

\* index.js:177-230  the server answers the GET of a fetchSlots call, or the
\* call fails
ServeSlots(i) ==
    /\ fetches[i].pc = "sent"
    /\ \E err \in BOOLEAN :
          fetches' = [fetches EXCEPT ![i] =
             IF err THEN [@ EXCEPT !.pc = "failed"]
             ELSE [@ EXCEPT !.pc = "answered",
                            !.data = GetSlots(bookings, fetches[i].date)]]
    /\ UNCHANGED <<setup, bookings, idSeq, reqs, selectedDate, selectedSlot,
                   slotsData, loading, posting>>

\* BookingInterface.js:34-43  the continuation of fetchSlots after the await:
\* setSlotsData(response.data) and setSelectedSlot(null), or
\* setSlotsData(null) in the catch; setLoading(false) in the finally
FetchReturns(i) ==
    /\ fetches[i].pc \in {"answered", "failed"}
    /\ IF fetches[i].pc = "answered"
       THEN slotsData' = fetches[i].data /\ selectedSlot' = NoSlot
       ELSE slotsData' = NoSlotsData /\ UNCHANGED selectedSlot
    /\ loading' = FALSE
    /\ fetches' = [fetches EXCEPT ![i].pc = "done"]
    /\ UNCHANGED <<setup, bookings, idSeq, reqs, selectedDate, posting>>

\* BookingInterface.js:46-48, :253-262  a click on one of the buttons drawn
\* from slotsData.availableSlots while loading is false
HandleSlotSelect(slot) ==
    /\ ~loading
    /\ slot \in Range(slotsData.availableSlots)
    /\ selectedSlot' = slot
    /\ UNCHANGED <<setup, bookings, idSeq, reqs, selectedDate, slotsData,
                   loading, fetches, posting>>

\* BookingInterface.js:58-96, :231  the form is submitted with a slot picked
\* and no booking under way: bookingData takes selectedDate and selectedSlot
HandleSubmit ==
    /\ selectedSlot # NoSlot
    /\ posting = NoPost
    /\ posting' = [date |-> selectedDate, time_slot |-> selectedSlot]
    /\ UNCHANGED <<setup, bookings, idSeq, reqs, selectedDate, selectedSlot,
                   slotsData, loading, fetches>>

\* BookingInterface.js:96-122 with index.js:278-360  the POST of bookingData
\* is admitted (no other POST is under way) and the page goes on after the
\* await: setSelectedSlot(null) and fetchSlots of the date of bookingData;
\* or the POST is refused or fails and the catch only shows the message
CreateBookingReturns ==
    /\ posting # NoPost
    /\ LET b == Sanitize(Body(EmailLower, Phone91, posting.date, posting.time_slot))
           taken == SlotTaken(SelectByDateAndSlot(bookings, usePostgreSQL, b.date, b.time_slot))
           full == DailyLimitReached(CountByDate(bookings, b.date))
       IN \E err \in BOOLEAN :
             IF err \/ taken \/ full
             THEN UNCHANGED <<bookings, idSeq, selectedSlot, loading, fetches>>
             ELSE /\ bookings' = InsertBooking(bookings, usePostgreSQL, idSeq + 1, b)
                  /\ idSeq' = idSeq + 1
                  /\ selectedSlot' = NoSlot
                  /\ FetchSlots(posting.date)
    /\ posting' = NoPost
    /\ UNCHANGED <<setup, reqs, selectedDate, slotsData>>

\* BookingInterface.js:10-29  the page after its first render on Monday
\* 2024-06-03: the effect has called fetchSlots for today
InitClient ==
    /\ usePostgreSQL \in BOOLEAN
    /\ SetupDone
    /\ bookings = WeekBookings(usePostgreSQL)
    /\ idSeq = Len(bookings)
    /\ reqs = <<>>
    /\ selectedDate = Mon0603
    /\ selectedSlot = NoSlot
    /\ slotsData = NoSlotsData
    /\ loading = TRUE
    /\ fetches = <<[date |-> Mon0603, pc |-> "sent", data |-> NoSlotsData]>>
    /\ posting = NoPost

NextClient ==
    \/ \E d \in Dates : SelectDate(d)
    \/ \E i \in DOMAIN fetches : ServeSlots(i)
    \/ \E i \in DOMAIN fetches : FetchReturns(i)
    \/ \E slot \in ClickedSlots : HandleSlotSelect(slot)
    \/ HandleSubmit
    \/ CreateBookingReturns

SpecClient == InitClient /\ [][NextClient]_vars

\* no fetchSlots call is between its setLoading(true) and its continuation
NoFetchInFlight == \A i \in DOMAIN fetches : fetches[i].pc = "done"

(***************************************************************************)
(* C30.  In BookingInterface, whenever no slot fetch is in flight, the     *)
(* slotsData on display is the server's response for the date currently    *)
(* selected, whatever the order in which the responses of overlapping      *)
(* fetchSlots calls arrive (calls started by successive date changes or by *)
(* the refresh after a booking).  A page that shows nothing because the    *)
(* call it last heard of failed is not counted.                            *)
(***************************************************************************)
C30_DisplayedSlotsOfSelectedDate ==
    (NoFetchInFlight /\ slotsData # NoSlotsData) => slotsData.date = selectedDate

====
